---- MODULE Spec2Model ----
(***************************************************************************)
(* Corsi block-tapping task (src/src/Final_Corsi_OOP.py).                  *)
(*                                                                         *)
(* The model follows Application.start: each frame runs handle_events (the *)
(* for loop over the events pygame.event.get() returned, one event per     *)
(* step, pc = "events") and then update (pc = "update").  A batch is any   *)
(* finite sequence of events.  The wall clock is kept as the two elapsed   *)
(* times the code compares, time() - trial_start and                       *)
(* time() - last_box_highlighted, each saturating just above the threshold *)
(* it is compared with (the clock is taken to be non-decreasing).          *)
(* Box positions are not part of this state machine: a box is its three    *)
(* display flags, and the cursor is the set of boxes whose rect holds it.  *)
(***************************************************************************)
EXTENDS Integers, Sequences, FiniteSets, TLC

\* ------------------------------------------------------------ parameters

\* Application(..., max_trials): trials per participant (3 in the source).
max_trials == 2

\* box_parameters['n_boxes']: boxes per layout (9 in the source).
n_boxes == 4

\* Longest text typed into the participant-id field.
MaxTextLen == 2

\* Cap on participant.errors (the code never caps it).
MaxErrors == 3

\* Sequence.screen_size of the layout specification, in a unit in which a
\* handful of boxes fill the canvas ((800, 600) pixels in the source).
screen_width == 6

screen_height == 5

\* box_parameters['margin'] and box_parameters['min_dist'] in that unit
\* (1.5 * BOX_SIZE and 2.0 * BOX_SIZE pixels in the source).
margin == 1

min_dist == 2

MAX_PARTICIPANTS == 20

\* The source's trials per participant and boxes per layout, the ranges of
\* the statistics specification.
MAX_TRIALS == 3

N_BOXES == 9

START_DELAY == 1

HIGHLIGHT_TIME == 1

\* Application.__init__: self.start_delay = int(start_delay)
start_delay == START_DELAY

\* box_parameters['t_highlight']
t_highlight == HIGHLIGHT_TIME

max_participants == MAX_PARTICIPANTS

\* Characters the keyboard can type into the id field (besides the space bar).
Chars == {"5", "a", "-"}

Digits == {"5"}

DigitValue(c) == IF c = "5" THEN 5 ELSE 0

\* ---------------------------------------------------------------- events

QUIT == [type |-> "QUIT", key |-> "", unicode |-> ""]

K_ESCAPE == [type |-> "KEYDOWN", key |-> "K_ESCAPE", unicode |-> ""]

K_RETURN == [type |-> "KEYDOWN", key |-> "K_RETURN", unicode |-> ""]

K_SPACE == [type |-> "KEYDOWN", key |-> "K_SPACE", unicode |-> " "]

MOUSEBUTTONUP == [type |-> "MOUSEBUTTONUP", key |-> "", unicode |-> ""]

CharKey(c) == [type |-> "KEYDOWN", key |-> c, unicode |-> c]

Events == {QUIT, K_ESCAPE, K_RETURN, K_SPACE, MOUSEBUTTONUP} \cup {CharKey(c) : c \in Chars}

\* handle_events: event.type == QUIT or (event.type == KEYDOWN and event.key == K_ESCAPE)
IsQuit(event) ==
    \/ event.type = "QUIT"
    \/ (event.type = "KEYDOWN" /\ event.key = "K_ESCAPE")

IsKey(event, key) == event.type = "KEYDOWN" /\ event.key = key

\* ----------------------------------------------------------------- state

VARIABLES
    state,              \* Application.state
    participant,        \* Application.participant (None or a Participant)
    sequence,           \* Application.sequence: length, highlight_box_id, boxes, correct
    trial_over,         \* Application.trial_over
    text_input,         \* text held by Application.text_input
    elapsed_trial,      \* time() - Application.trial_start, saturating
    elapsed_highlight,  \* time() - Sequence.last_box_highlighted, saturating
    mouse_read,         \* pygame.mouse.get_pos() has been read in this frame
    mouse_hit,          \* boxes whose rect holds the cursor in this frame
    csv,                \* rows appended to corsi.csv
    pc,                 \* "events" | "update" | "exited"
    layout,             \* Sequence.generate_boxes: its locals boxes and i
    fails,              \* history: consecutive incorrect attempts in this trial
    last_ok,            \* history: length of the trial's last correct sequence (2 if none)
    taps,               \* history: boxes registered as clicked for this sequence
    pending             \* history: an attempt is scored, show_feedback has not run

progvars == <<state, participant, sequence, trial_over, text_input,
              elapsed_trial, elapsed_highlight, mouse_read, mouse_hit, csv, pc>>

vars == <<state, participant, sequence, trial_over, text_input,
          elapsed_trial, elapsed_highlight, mouse_read, mouse_hit, csv, pc,
          layout, fails, last_ok, taps, pending>>

None == [none |-> TRUE]

BoxIds == 0 .. (n_boxes - 1)

\* Sequence.Box.__init__: highlight, clicked and correct start False.
Box == [highlight |-> FALSE, clicked |-> FALSE, correct |-> FALSE]

\* Participant.__init__ (mean and standard deviation in hundredths)
Participant(participant_id) ==
    [participant_id |-> participant_id,
     current_trial |-> 1,
     corsi_spans |-> <<>>,
     corsi_span |-> 2,
     clicks |-> 0,
     errors |-> 0,
     mean_corsi_span |-> 0,
     std_corsi_span |-> 0]

\* Saturation points of the two elapsed times: one step above the threshold.
TrialCap == start_delay + 1

HighlightCap == t_highlight + 1

Min(a, b) == IF a < b THEN a ELSE b

\* Sequence.__init__ and Application.__init__ (length None is written 0;
\* trial_start = 0 and last_box_highlighted = 0 lie far in the past).
Init ==
    /\ state = "Participant_ID"
    /\ participant = None
    /\ sequence = [length |-> 0, highlight_box_id |-> 0,
                   boxes |-> [i \in {} |-> Box], correct |-> FALSE]
    /\ trial_over = FALSE
    /\ text_input = <<>>
    /\ elapsed_trial = TrialCap
    /\ elapsed_highlight = HighlightCap
    /\ mouse_read = FALSE
    /\ mouse_hit = {}
    /\ csv = <<>>
    /\ pc = "events"
    /\ layout = [boxes |-> <<>>, i |-> 0]
    /\ fails = 0
    /\ last_ok = 2
    /\ taps = <<>>
    /\ pending = FALSE


\* ------------------------------------------------------- pure functions

RECURSIVE lstrip(_)
lstrip(t) == IF t # <<>> /\ Head(t) = " " THEN lstrip(Tail(t)) ELSE t

RECURSIVE rstrip(_)
rstrip(t) ==
    IF t # <<>> /\ t[Len(t)] = " " THEN rstrip(SubSeq(t, 1, Len(t) - 1)) ELSE t

RECURSIVE DecimalValue(_)
DecimalValue(d) ==
    IF d = <<>> THEN 0
    ELSE 10 * DecimalValue(SubSeq(d, 1, Len(d) - 1)) + DigitValue(d[Len(d)])

\* int(self.text_input.get_text()), ValueError caught: surrounding blanks are
\* dropped, one leading sign is allowed, the rest must be decimal digits.
\* ok = FALSE stands for participant_id = None.
int(t) ==
    LET s == rstrip(lstrip(t))
        negative == s # <<>> /\ Head(s) = "-"
        digits == IF negative THEN Tail(s) ELSE s
        ok == digits # <<>> /\ \A i \in 1 .. Len(digits) : digits[i] \in Digits
    IN  [ok |-> ok,
         value |-> IF ~ok THEN 0
                   ELSE IF negative THEN 0 - DecimalValue(digits)
                   ELSE DecimalValue(digits)]

\* pygame_textinput.TextInput.update([event]): a key press that carries a
\* character appends it; return and the other events leave the text alone.
text_input_update(text, event) ==
    IF event.type = "KEYDOWN" /\ event.unicode # "" THEN Append(text, event.unicode)
    ELSE text

RECURSIVE sum(_)
sum(xs) == IF xs = <<>> THEN 0 ELSE Head(xs) + sum(Tail(xs))

\* Mutant of round2: the quotient is cut off after two decimal places.
round2_cut_off(num, den) == (100 * num) \div den

\* round(x, 2) of the quotient num / den (den > 0), in hundredths.
round2(num, den) == (200 * num + den) \div (2 * den)

\* round(sqrt(total / n), 2) in hundredths, for total a sum of squared
\* deviations measured in hundredths.
round2_sqrt(total, n) ==
    CHOOSE r \in 0 .. (100 * n_boxes) :
        /\ (r = 0 \/ (2 * r - 1) * (2 * r - 1) * n <= 4 * total)
        /\ 4 * total < (2 * r + 1) * (2 * r + 1) * n

\* Mutant of record_span: the span is appended on every call.
record_span_every_call(p) == Append(p.corsi_spans, p.corsi_span)

\* Participant.update_statistics: append the current span unless the
\* history already has an entry for the current trial.
record_span(p) ==
    IF Len(p.corsi_spans) < p.current_trial
    THEN Append(p.corsi_spans, p.corsi_span)
    ELSE p.corsi_spans

\* Participant.update_statistics
update_statistics(p) ==
    LET spans == record_span(p)
        mean == round2(sum(spans), Len(spans))
        squares == [i \in 1 .. Len(spans) |->
                       (100 * spans[i] - mean) * (100 * spans[i] - mean)]
    IN  [p EXCEPT !.corsi_spans = spans,
                  !.mean_corsi_span = mean,
                  !.std_corsi_span = round2_sqrt(sum(squares), Len(spans))]

\* Participant.write_csv: the row appended to corsi.csv
csv_row(p) ==
    <<p.participant_id, p.corsi_spans, p.mean_corsi_span, p.std_corsi_span>>

\* Sequence.generate_boxes: n_boxes fresh boxes (their positions are not
\* part of this model).
generate_boxes == [i \in BoxIds |-> Box]

\* Sequence.generate
generate(seq, length) ==
    [seq EXCEPT !.length = length,
                !.boxes = generate_boxes,
                !.highlight_box_id = 0]

\* Mutant of sequence_length: the length is the span itself.
sequence_length_is_span(p) == p.corsi_span

\* Application.generate_sequence: sequence_length = corsi_span + 1
sequence_length(p) == p.corsi_span + 1

\* Mutant of delay_over: the start delay is never found to be over.
delay_never_over(since_trial_start) == since_trial_start > TrialCap

\* Sequence.show: (time() - trial_start) > start_delay
delay_over(since_trial_start) == since_trial_start > start_delay

\* Mutant of dwell_over: the highlight duration is not waited for.
dwell_ignored(since_last_highlight) == TRUE

\* Sequence.show: (current_time - self.last_box_highlighted) > t_highlight
dwell_over(since_last_highlight) == since_last_highlight > t_highlight

\* Mutant of highlight_next: the previous box stays highlighted.
highlight_next_keeps_previous(seq) ==
    [seq EXCEPT !.boxes[seq.highlight_box_id].highlight = TRUE,
                !.highlight_box_id = seq.highlight_box_id + 1]

\* Sequence.show, the full sequence has not been highlighted yet: disable
\* highlighting for the previous box, enable it for the current box and
\* increment the box selector.
highlight_next(seq) ==
    [seq EXCEPT !.boxes[seq.highlight_box_id - 1].highlight = FALSE,
                !.boxes[seq.highlight_box_id].highlight = TRUE,
                !.highlight_box_id = seq.highlight_box_id + 1]

\* Mutant of end_of_sequence: the time of the last highlighting is set again
\* when the presentation ends.
end_of_sequence_stamped(seq) ==
    [sequence |-> [seq EXCEPT !.boxes[seq.highlight_box_id - 1].highlight = FALSE],
     stamped |-> TRUE,
     next_state |-> "UserInput"]

\* Sequence.show, the full sequence has been highlighted: disable
\* highlighting for the previous box and set the state to user input;
\* last_box_highlighted is left as it is.
end_of_sequence(seq) ==
    [sequence |-> [seq EXCEPT !.boxes[seq.highlight_box_id - 1].highlight = FALSE],
     stamped |-> FALSE,
     next_state |-> "UserInput"]

\* Sequence.show: the sequence after the call, whether last_box_highlighted
\* was set to time(), and the returned next_state.
show(seq, since_trial_start, since_last_highlight) ==
    LET id == seq.highlight_box_id
        same == [sequence |-> seq, stamped |-> FALSE, next_state |-> "ShowSequence"]
    IN  IF delay_over(since_trial_start) THEN
            IF id = 0 THEN
                [sequence |-> [seq EXCEPT !.boxes[id].highlight = TRUE,
                                          !.highlight_box_id = id + 1],
                 stamped |-> TRUE,
                 next_state |-> "ShowSequence"]
            ELSE IF dwell_over(since_last_highlight) THEN
                IF id < seq.length THEN
                    [sequence |-> highlight_next(seq),
                     stamped |-> TRUE,
                     next_state |-> "ShowSequence"]
                ELSE end_of_sequence(seq)
            ELSE same
        ELSE same

\* Mutant of show_feedback: corsi_span is set to the sequence length whether
\* or not the sequence was correct.
show_feedback_span_on_failure(p, seq, over) ==
    LET p1 == IF seq.correct
              THEN [p EXCEPT !.errors = 0, !.corsi_span = seq.length]
              ELSE [p EXCEPT !.corsi_span = seq.length]
        over1 == IF seq.correct THEN (over \/ seq.length = n_boxes)
                 ELSE IF p.errors = 1 THEN over
                 ELSE TRUE
    IN  [participant |-> IF over1 THEN update_statistics(p1) ELSE p1,
         trial_over |-> over1]

\* Application.show_feedback: the participant and trial_over after the call.
show_feedback(p, seq, over) ==
    LET p1 == IF seq.correct
              THEN [p EXCEPT !.errors = 0, !.corsi_span = seq.length]
              ELSE p
        over1 == IF seq.correct THEN (over \/ seq.length = n_boxes)
                 ELSE IF p.errors = 1 THEN over
                 ELSE TRUE
    IN  [participant |-> IF over1 THEN update_statistics(p1) ELSE p1,
         trial_over |-> over1]


\* --------------------------------------------------------------- handlers

\* Application.generate_sequence, called with the participant as the caller
\* left it.
generate_sequence(p) ==
    /\ sequence' = generate(sequence, sequence_length(p))
    /\ state' = "ShowSequence"
    /\ participant' = [p EXCEPT !.clicks = 0]

\* Mutant of handle_quit: the process exits without writing the row.
handle_quit_without_row ==
    /\ pc' = "exited"
    /\ UNCHANGED <<state, participant, sequence, trial_over, text_input,
                   elapsed_trial, elapsed_highlight, mouse_read, mouse_hit, csv>>

\* Application.handle_events, quit branch: write the row if a participant
\* exists, then pygame.quit() and sys.exit().
handle_quit ==
    /\ csv' = IF participant # None THEN Append(csv, csv_row(participant)) ELSE csv
    /\ pc' = "exited"
    /\ UNCHANGED <<state, participant, sequence, trial_over, text_input,
                   elapsed_trial, elapsed_highlight, mouse_read, mouse_hit>>

\* Mutant of valid_id: the lower end of the range is not tested.
valid_id_no_lower_end(parsed) == parsed.ok /\ parsed.value <= max_participants

\* Application.handle_id_input: the range test on the parsed id
valid_id(parsed) == parsed.ok /\ 1 <= parsed.value /\ parsed.value <= max_participants

\* Application.handle_id_input
handle_id_input(event) ==
    /\ Len(text_input_update(text_input, event)) <= MaxTextLen
    /\ text_input' = text_input_update(text_input, event)
    /\ IF IsKey(event, "K_RETURN") /\ valid_id(int(text_input'))
       THEN /\ participant' = Participant(int(text_input').value)
            /\ state' = "Instructions"
       ELSE UNCHANGED <<participant, state>>
    /\ UNCHANGED <<sequence, trial_over, elapsed_trial, elapsed_highlight,
                   mouse_read, mouse_hit, csv, pc>>

\* Application.handle_instructions_input
handle_instructions_input(event) ==
    /\ IF IsKey(event, "K_SPACE")
       THEN /\ elapsed_trial' = 0
            /\ generate_sequence(participant)
       ELSE UNCHANGED <<elapsed_trial, sequence, state, participant>>
    /\ UNCHANGED <<trial_over, text_input, elapsed_highlight, mouse_read,
                   mouse_hit, csv, pc>>

\* Places the cursor can be: over no box, or over one box (the rects of two
\* boxes of a layout do not overlap).
CursorPlaces == {{}} \cup {{b} : b \in BoxIds}

\* Mutant of count_error: a wrong click is not counted.
count_error_forgotten(p) == p

\* Application.handle_user_input: self.participant.errors += 1
count_error(p) == [p EXCEPT !.errors = p.errors + 1]

\* Mutant of mark_clicked: the other boxes keep their clicked flag.
mark_clicked_keeps_others(boxes, b) == [boxes EXCEPT ![b].clicked = TRUE]

\* Application.handle_user_input: make sure all other boxes are set to
\* "un-clicked" and set the property of the clicked box.
mark_clicked(boxes, b) ==
    [i \in BoxIds |-> [boxes[i] EXCEPT !.clicked = (i = b)]]

\* Application.handle_user_input, the body run for the box the pointer was
\* released on.
score_click(b) ==
    LET k == participant.clicks
        clicked == mark_clicked(sequence.boxes, b)
    IN  IF b = k THEN
            /\ IF k = sequence.length - 1
               THEN /\ sequence' = [sequence EXCEPT
                                       !.boxes = [clicked EXCEPT ![b].correct = TRUE],
                                       !.correct = TRUE]
                    /\ state' = "Feedback"
                    /\ UNCHANGED participant
               ELSE /\ sequence' = [sequence EXCEPT
                                       !.boxes = [clicked EXCEPT ![b].correct = TRUE]]
                    /\ participant' = [participant EXCEPT !.clicks = k + 1]
                    /\ UNCHANGED state
        ELSE
            /\ sequence' = [sequence EXCEPT
                               !.boxes = [clicked EXCEPT ![b].correct = FALSE],
                               !.correct = FALSE]
            /\ state' = "Feedback"
            /\ participant' = count_error(participant)

\* Mutant of click_target: a box that is already clicked is a target too.
click_target_any(hit, boxes) == hit

\* Application.handle_user_input: the boxes with
\* box.rect.collidepoint(pygame.mouse.get_pos()) and not box.clicked
click_target(hit, boxes) == {b \in hit : ~boxes[b].clicked}

\* Application.handle_user_input
handle_user_input(event) ==
    /\ IF event.type = "MOUSEBUTTONUP"
       THEN \E hit \in (IF mouse_read THEN {mouse_hit} ELSE CursorPlaces) :
                /\ mouse_read' = TRUE
                /\ mouse_hit' = hit
                /\ LET target == click_target(hit, sequence.boxes)
                   IN  IF target = {}
                       THEN UNCHANGED <<sequence, state, participant>>
                       ELSE score_click(CHOOSE b \in target : TRUE)
       ELSE UNCHANGED <<mouse_read, mouse_hit, sequence, state, participant>>
    /\ UNCHANGED <<trial_over, text_input, elapsed_trial, elapsed_highlight, csv, pc>>

\* Mutant of more_trials: the last trial counts as having a successor.
more_trials_off_by_one(p, over) == over /\ p.current_trial <= max_trials

\* Application.handle_feedback_input: trial is over and maximum number of
\* trials not reached
more_trials(p, over) == over /\ p.current_trial < max_trials

\* Mutant of next_trial: the history is emptied when the trial advances.
next_trial_drops_history(p) ==
    [p EXCEPT !.current_trial = p.current_trial + 1,
              !.corsi_span = 2,
              !.errors = 0,
              !.corsi_spans = <<>>]

\* Mutant of next_trial: corsi_span is not reset for the new trial.
next_trial_keeps_span(p) ==
    [p EXCEPT !.current_trial = p.current_trial + 1, !.errors = 0]

\* Application.handle_feedback_input: increment the trial counter, reset
\* corsi_span to 2 and errors to 0
next_trial(p) ==
    [p EXCEPT !.current_trial = p.current_trial + 1,
              !.corsi_span = 2,
              !.errors = 0]

\* Application.handle_feedback_input
handle_feedback_input(event) ==
    /\ IF IsKey(event, "K_SPACE")
       THEN LET advance == more_trials(participant, trial_over)
                p == IF advance THEN next_trial(participant) ELSE participant
                over == IF advance THEN FALSE ELSE trial_over
            IN  /\ trial_over' = over
                /\ IF ~(over /\ p.current_trial = max_trials)
                   THEN generate_sequence(p)
                   ELSE /\ participant' = p
                        /\ UNCHANGED <<sequence, state>>
       ELSE UNCHANGED <<trial_over, participant, sequence, state>>
    /\ UNCHANGED <<text_input, elapsed_trial, elapsed_highlight, mouse_read,
                   mouse_hit, csv, pc>>

\* Application.update, state in ['ShowSequence', 'UserInput']
update_sequence ==
    LET shown == show(sequence, elapsed_trial, elapsed_highlight)
    IN  /\ sequence' = shown.sequence
        /\ elapsed_highlight' = IF shown.stamped THEN 0 ELSE elapsed_highlight
        /\ state' = shown.next_state
        /\ UNCHANGED <<participant, trial_over>>

\* Application.update, state == 'Feedback'
update_feedback ==
    LET shown == show_feedback(participant, sequence, trial_over)
    IN  /\ participant' = shown.participant
        /\ trial_over' = shown.trial_over
        /\ UNCHANGED <<sequence, state, elapsed_highlight>>

\* ------------------------------------------------------ history variables

ClickedBoxes(seq) == {b \in DOMAIN seq.boxes : seq.boxes[b].clicked}

SameTrial ==
    participant # None /\ participant' # None
    /\ participant'.current_trial = participant.current_trial

\* What a step adds to the history: the boxes registered as clicked for the
\* sequence on screen, the run of incorrect attempts, the last correct length,
\* and whether a scored attempt still waits for show_feedback.  No step of the
\* application's loop touches the locals of generate_boxes.
Observe ==
    /\ taps' = IF sequence'.boxes # sequence.boxes /\ ClickedBoxes(sequence') = {}
               THEN <<>>
               ELSE IF ClickedBoxes(sequence') # ClickedBoxes(sequence)
               THEN Append(taps, CHOOSE b \in ClickedBoxes(sequence') : TRUE)
               ELSE taps
    /\ fails' = IF participant' # None /\ ~SameTrial THEN 0
                ELSE IF state = "UserInput" /\ state' = "Feedback"
                THEN (IF sequence'.correct THEN 0 ELSE fails + 1)
                ELSE fails
    /\ last_ok' = IF participant' # None /\ ~SameTrial THEN 2
                  ELSE IF state = "UserInput" /\ state' = "Feedback" /\ sequence'.correct
                  THEN sequence.length
                  ELSE last_ok
    /\ pending' = IF state = "UserInput" /\ state' = "Feedback" THEN TRUE
                  ELSE IF state' # "Feedback" \/ (pc = "update" /\ pc' = "events")
                  THEN FALSE
                  ELSE pending
    /\ UNCHANGED layout

\* ---------------------------------------------------------------- actions

\* handle_events: a quit or escape event
Quit ==
    /\ pc = "events"
    /\ \E event \in Events : IsQuit(event) /\ handle_quit
    /\ Observe

\* handle_events: an event in state Participant_ID
IdInput ==
    /\ pc = "events" /\ state = "Participant_ID"
    /\ \E event \in Events : ~IsQuit(event) /\ handle_id_input(event)
    /\ Observe

\* handle_events: an event in state Instructions
InstructionsInput ==
    /\ pc = "events" /\ state = "Instructions"
    /\ \E event \in Events : ~IsQuit(event) /\ handle_instructions_input(event)
    /\ Observe

\* Mutant of ShowSequenceInput: the UserInput branch of handle_events also
\* takes the events of state ShowSequence.
ShowSequenceInput_as_UserInput ==
    /\ pc = "events" /\ state = "ShowSequence"
    /\ \E event \in Events : ~IsQuit(event) /\ handle_user_input(event)
    /\ participant'.errors <= MaxErrors
    /\ Observe

\* handle_events: an event in state ShowSequence, which no branch handles
ShowSequenceInput ==
    /\ pc = "events" /\ state = "ShowSequence"
    /\ \E event \in Events : ~IsQuit(event)
    /\ UNCHANGED vars

\* handle_events: an event in state UserInput
UserInput ==
    /\ pc = "events" /\ state = "UserInput"
    /\ \E event \in Events : ~IsQuit(event) /\ handle_user_input(event)
    /\ participant'.errors <= MaxErrors
    /\ Observe

\* handle_events: an event in state Feedback
FeedbackInput ==
    /\ pc = "events" /\ state = "Feedback"
    /\ \E event \in Events : ~IsQuit(event) /\ handle_feedback_input(event)
    /\ Observe

\* handle_events returns: the for loop has run through the batch
EndOfEvents ==
    /\ pc = "events"
    /\ pc' = "update"
    /\ UNCHANGED <<state, participant, sequence, trial_over, text_input,
                   elapsed_trial, elapsed_highlight, mouse_read, mouse_hit, csv,
                   layout, fails, last_ok, taps, pending>>

\* Application.update and the end of the frame; the next pygame.event.get()
\* brings a new cursor position.
Update ==
    /\ pc = "update"
    /\ IF state \in {"ShowSequence", "UserInput"} THEN update_sequence
       ELSE IF state = "Feedback" THEN update_feedback
       ELSE UNCHANGED <<participant, sequence, state, trial_over, elapsed_highlight>>
    /\ pc' = "events"
    /\ mouse_read' = FALSE
    /\ mouse_hit' = {}
    /\ UNCHANGED <<text_input, elapsed_trial, csv>>
    /\ Observe

\* The wall clock advances by one unit.
TimePasses ==
    /\ pc # "exited"
    /\ elapsed_trial' = Min(elapsed_trial + 1, TrialCap)
    /\ elapsed_highlight' = Min(elapsed_highlight + 1, HighlightCap)
    /\ UNCHANGED <<state, participant, sequence, trial_over, text_input,
                   mouse_read, mouse_hit, csv, pc, layout, fails, last_ok, taps,
                   pending>>

Next ==
    \/ Quit
    \/ IdInput
    \/ InstructionsInput
    \/ ShowSequenceInput
    \/ UserInput
    \/ FeedbackInput
    \/ EndOfEvents
    \/ Update
    \/ TimePasses

Spec == Init /\ [][Next]_vars


\* ------------------------------------------------------------ properties

\* A proceed input that makes the next sequence of the same trial.
NextSequenceStep ==
    /\ state = "Feedback"
    /\ state' = "ShowSequence"

\* C1: staircase. Whenever update has run and the trial's last two (or more)
\* attempts were incorrect, the trial is over and corsi_span is the length of
\* the trial's last correctly completed sequence (2 if there is none).
C1_Staircase ==
    [][(pc = "update" /\ pc' = "events" /\ fails >= 2)
        => (trial_over' /\ participant'.corsi_span = last_ok)]_vars

\* C2: monotonicity. Within a trial the next sequence is never shorter than
\* the previous one, it is longer only if the previous attempt was completed
\* correctly, and after a failed attempt it has the same length.
C2_Monotonic ==
    [][(NextSequenceStep /\ SameTrial)
        => /\ sequence'.length >= sequence.length
           /\ (sequence'.length > sequence.length => sequence.correct)
           /\ (~sequence.correct => sequence'.length = sequence.length)]_vars

\* C2 witness: in one trial a length-4 sequence followed a correct length-3
\* one, was failed once and has been generated again.
C2_Witness ==
    /\ state = "ShowSequence"
    /\ sequence.length = 4
    /\ last_ok = 3
    /\ fails = 1

\* C3: success handling. When the next sequence is generated after a
\* correctly completed one, the error counter has been reset to 0 and
\* corsi_span set to the completed length, and unless the trial was won the
\* next sequence is one longer.
C3_SuccessHandling ==
    [][(NextSequenceStep /\ sequence.correct)
        => /\ participant.errors = 0
           /\ participant.corsi_span = sequence.length
           /\ (~trial_over => sequence'.length = sequence.length + 1)]_vars

\* C4: win condition. A correct sequence ends the trial only if its length
\* is n_boxes, and after a correct sequence of length n_boxes no further
\* sequence is generated unless the trial has ended.
C4_WinCondition ==
    /\ [](trial_over /\ sequence.correct => sequence.length = n_boxes)
    /\ [][(NextSequenceStep /\ sequence.correct /\ sequence.length = n_boxes)
           => trial_over]_vars


\* A pointer release in UserInput on box b, which is not marked clicked (the
\* first read of the cursor in a frame; a later release of the same frame
\* finds the same box, by then marked clicked).
ClickStep(b) ==
    /\ state = "UserInput"
    /\ ~mouse_read
    /\ mouse_read'
    /\ mouse_hit' = {b}
    /\ ~sequence.boxes[b].clicked

\* C5: click scoring. A release on the box at index clicks marks it correct
\* and either advances clicks (staying in UserInput) or, at the last index,
\* marks the sequence correct and enters Feedback; a release on another
\* unclicked box marks the sequence incorrect, adds exactly one error and
\* enters Feedback. A sequence scored correct was tapped 0, 1, ..., length-1.
C5_ClickScoring ==
    /\ [](state = "Feedback" /\ sequence.correct
            => taps = [i \in 1 .. sequence.length |-> i - 1])
    /\ [][\A b \in BoxIds : ClickStep(b) =>
            LET k == participant.clicks
            IN  /\ sequence'.boxes[b].clicked
                /\ IF b = k
                   THEN /\ sequence'.boxes[b].correct
                        /\ participant'.errors = participant.errors
                        /\ IF k < sequence.length - 1
                           THEN /\ state' = "UserInput"
                                /\ participant'.clicks = k + 1
                           ELSE /\ sequence'.correct
                                /\ state' = "Feedback"
                   ELSE /\ ~sequence'.boxes[b].correct
                        /\ ~sequence'.correct
                        /\ participant'.errors = participant.errors + 1
                        /\ participant'.clicks = k
                        /\ state' = "Feedback"]_vars

\* C5 witness: a sequence of length 4 scored correct after four taps, in a
\* trial that also saw a wrong click.
C5_Witness ==
    /\ state = "Feedback"
    /\ sequence.correct
    /\ Len(taps) = 4
    /\ participant.errors = 1

\* C6: the span history grows only when a trial ends, by exactly the
\* corsi_span of that moment, and while the trial is over it holds one entry
\* per trial, however often Feedback is rendered.
C6_FinalizeOnce ==
    /\ [](trial_over =>
            /\ Len(participant.corsi_spans) = participant.current_trial
            /\ participant.corsi_spans[participant.current_trial] = participant.corsi_span)
    /\ [][(participant # None /\ participant'.corsi_spans # participant.corsi_spans) =>
            /\ ~trial_over
            /\ trial_over'
            /\ participant'.corsi_spans =
                   Append(participant.corsi_spans, participant'.corsi_span)]_vars

\* C6 witness: the last trial is over, its span is recorded, and Feedback is
\* about to be rendered again.
C6_Witness ==
    /\ trial_over
    /\ pc = "update"
    /\ participant.current_trial = max_trials
    /\ Len(participant.corsi_spans) = max_trials

\* C7: once the last trial is over nothing but quitting has an effect: the
\* participant, the sequence, the state (Feedback) and trial_over stay.
C7_Terminal ==
    [][(trial_over /\ participant.current_trial = max_trials) =>
        /\ participant' = participant
        /\ sequence' = sequence
        /\ trial_over'
        /\ state = "Feedback"
        /\ state' = "Feedback"]_vars

\* C7 witness: the last trial is over and events are being handled.
C7_Witness ==
    /\ trial_over
    /\ participant.current_trial = max_trials
    /\ pc = "events"
    /\ state = "Feedback"

\* C8: the trial index changes only while an event is handled in Feedback
\* with the trial over and trials left; it grows by one, corsi_span becomes 2,
\* errors 0, trial_over is cleared and a sequence of length 3 is generated.
C8_TrialAdvance ==
    [][(participant # None
        /\ participant'.current_trial # participant.current_trial) =>
        /\ pc = "events"
        /\ state = "Feedback"
        /\ trial_over
        /\ participant.current_trial < max_trials
        /\ participant'.current_trial = participant.current_trial + 1
        /\ participant'.corsi_span = 2
        /\ participant'.errors = 0
        /\ ~trial_over'
        /\ state' = "ShowSequence"
        /\ sequence'.length = 3
        /\ sequence'.highlight_box_id = 0]_vars

\* C8 witness: the second trial has started with its first sequence.
C8_Witness ==
    /\ participant # None
    /\ participant.current_trial = 2
    /\ state = "ShowSequence"
    /\ sequence.length = 3
    /\ Len(participant.corsi_spans) = 1

RECURSIVE Decimal(_)
Decimal(n) ==
    LET digit == <<"0", "1", "2", "3", "4", "5", "6", "7", "8", "9">>[(n % 10) + 1]
    IN  IF n < 10 THEN <<digit>> ELSE Append(Decimal(n \div 10), digit)

Blanks(n) == [i \in 1 .. n |-> " "]

\* The ids in [1, max_participants] that the text is a numeral of, blanks
\* around the numeral allowed.
IdsOf(text) ==
    {n \in 1 .. max_participants :
        \E i, j \in 0 .. Len(text) : text = Blanks(i) \o Decimal(n) \o Blanks(j)}

\* C10: a participant is created only in Participant_ID, by a step that
\* leaves the text alone, when the text is an integer in
\* [1, max_participants]; it is the fresh Participant of that id and the state
\* becomes Instructions. Such a text can always be confirmed; any other text
\* cannot, and until then only the text changes.
C10_Identification ==
    /\ [](state = "Participant_ID" /\ pc = "events" =>
            (ENABLED (IdInput /\ state' # "Participant_ID")) = (IdsOf(text_input) # {}))
    /\ [][(state = "Participant_ID" /\ state' # "Participant_ID") =>
            /\ text_input' = text_input
            /\ state' = "Instructions"
            /\ \E n \in IdsOf(text_input) :
                   participant' = [participant_id |-> n, current_trial |-> 1,
                                   corsi_spans |-> <<>>, corsi_span |-> 2,
                                   clicks |-> 0, errors |-> 0,
                                   mean_corsi_span |-> 0, std_corsi_span |-> 0]]_vars
    /\ [][(state = "Participant_ID" /\ state' = "Participant_ID") =>
            /\ participant' = None
            /\ UNCHANGED <<sequence, trial_over, csv>>]_vars

\* C10 witness: the id typed with a blank was accepted.
C10_Witness ==
    /\ state = "Instructions"
    /\ text_input = <<" ", "5">>
    /\ participant.participant_id = 5

\* Boxes of a sequence that are highlighted.
Highlighted(seq) == {b \in DOMAIN seq.boxes : seq.boxes[b].highlight}

\* C11: while a sequence of length L is presented at most one box is
\* highlighted, and it is the box before the highlight cursor, which never
\* passes L; the highlighted box changes only from none to box 0, from box k
\* to box k + 1 < L, or from box L - 1 to none, and that last change is the
\* one that makes the state UserInput, so the boxes highlighted are 0 .. L - 1
\* in order, each once; outside the presentation no box is highlighted.
C11_HighlightOrder ==
    /\ [](/\ Cardinality(Highlighted(sequence)) <= 1
          /\ sequence.highlight_box_id <= sequence.length
          /\ Highlighted(sequence) \subseteq 0 .. (sequence.length - 1)
          /\ state = "ShowSequence" =>
                Highlighted(sequence) = IF sequence.highlight_box_id = 0 THEN {}
                                        ELSE {sequence.highlight_box_id - 1}
          /\ state # "ShowSequence" => Highlighted(sequence) = {})
    /\ [][/\ Highlighted(sequence') # Highlighted(sequence)
             => /\ state = "ShowSequence"
                /\ sequence'.length = sequence.length
                /\ \/ Highlighted(sequence) = {} /\ Highlighted(sequence') = {0}
                   \/ \E k \in 0 .. (sequence.length - 2) :
                          /\ Highlighted(sequence) = {k}
                          /\ Highlighted(sequence') = {k + 1}
                   \/ /\ Highlighted(sequence) = {sequence.length - 1}
                      /\ Highlighted(sequence') = {}
                      /\ state' = "UserInput"
          /\ (state = "ShowSequence" /\ state' = "UserInput")
             => Highlighted(sequence) = {sequence.length - 1}]_vars

\* A sequence of three boxes has been presented to its end.
C11_Witness ==
    /\ state = "UserInput"
    /\ sequence.length = 3
    /\ sequence.highlight_box_id = 3
    /\ Highlighted(sequence) = {}
    /\ participant.clicks = 0

\* A step that generates a sequence: a proceed input in Instructions or in
\* Feedback that leads to ShowSequence.
GenerateStep == state \in {"Instructions", "Feedback"} /\ state' = "ShowSequence"

\* C12: immediately after a sequence is generated the highlight cursor is 0,
\* the sequence's correctness flag is reset, every box is neither highlighted
\* nor clicked, the click counter is 0 and the state is ShowSequence.
C12_GenerationResets ==
    [][GenerateStep =>
          /\ sequence'.highlight_box_id = 0
          /\ sequence'.correct = FALSE
          /\ \A b \in DOMAIN sequence'.boxes :
                 ~sequence'.boxes[b].highlight /\ ~sequence'.boxes[b].clicked
          /\ participant'.clicks = 0
          /\ state' = "ShowSequence"]_vars

\* C12 without the correctness flag: what a generation does reset.
C12_OtherResets ==
    [][GenerateStep =>
          /\ sequence'.highlight_box_id = 0
          /\ DOMAIN sequence'.boxes = BoxIds
          /\ \A b \in BoxIds : sequence'.boxes[b] = Box
          /\ participant'.clicks = 0]_vars

\* --------------------------------------------------- layout specification

\* Mutant of collision_check: only boxes with the same centre collide.
collision_check_same_centre(candidate_box, box) == candidate_box.pos = box.pos

\* Sequence.collision_check: sqrt(dx ** 2 + dy ** 2) < min_dist, compared
\* as squares.
collision_check(candidate_box, box) ==
    LET dx == candidate_box.pos[1] - box.pos[1]
        dy == candidate_box.pos[2] - box.pos[2]
    IN  dx * dx + dy * dy < min_dist * min_dist

\* Sequence.generate_boxes, one pass of the while loop: a candidate is sampled
\* and appended unless it collides with a box generated before.
PlaceBox ==
    /\ layout.i < n_boxes
    /\ \E random_x \in margin .. (screen_width - margin),
          random_y \in margin .. (screen_height - margin) :
           LET candidate_box == [pos |-> <<random_x, random_y>>]
               boxes == layout.boxes
           IN  layout' = IF ~\E k \in 1 .. Len(boxes) :
                                collision_check(candidate_box, boxes[k])
                         THEN [boxes |-> Append(boxes, candidate_box),
                               i |-> layout.i + 1]
                         ELSE layout
    /\ UNCHANGED <<state, participant, sequence, trial_over, text_input,
                   elapsed_trial, elapsed_highlight, mouse_read, mouse_hit, csv,
                   pc, fails, last_ok, taps, pending>>

\* One call of Sequence.generate_boxes, from its first line to its return.
LayoutSpec == Init /\ [][PlaceBox]_vars

\* C13: a layout that generate_boxes returns has exactly n_boxes boxes (the
\* list grows with i and the loop ends at i = n_boxes), every two distinct
\* boxes have centres at least min_dist apart, and every centre lies within
\* [margin, screen size - margin] on both axes.
C13_Layout ==
    LET boxes == layout.boxes
    IN  /\ Len(boxes) = layout.i
        /\ layout.i <= n_boxes
        /\ \A j, k \in 1 .. Len(boxes) :
               j # k =>
                   (boxes[j].pos[1] - boxes[k].pos[1]) * (boxes[j].pos[1] - boxes[k].pos[1])
                   + (boxes[j].pos[2] - boxes[k].pos[2]) * (boxes[j].pos[2] - boxes[k].pos[2])
                   >= min_dist * min_dist
        /\ \A k \in 1 .. Len(boxes) :
               /\ boxes[k].pos[1] \in margin .. (screen_width - margin)
               /\ boxes[k].pos[2] \in margin .. (screen_height - margin)

\* generate_boxes is about to return a layout in which two boxes are exactly
\* min_dist apart.
C13_Witness ==
    /\ layout.i = n_boxes
    /\ Len(layout.boxes) = n_boxes
    /\ \E j, k \in 1 .. n_boxes :
           /\ layout.boxes[j].pos[1] = layout.boxes[k].pos[1] + min_dist
           /\ layout.boxes[j].pos[2] = layout.boxes[k].pos[2]

\* ----------------------------------------------- statistics specification

\* Span histories of the trials before the current one.
Histories ==
    UNION {[1 .. k -> 2 .. N_BOXES] : k \in 0 .. (MAX_TRIALS - 1)}

\* A participant in a trial that is about to be finalized: the earlier trials
\* are in corsi_spans with their statistics, the current trial's span is not.
InitStats ==
    /\ \E h \in Histories, span \in 2 .. N_BOXES :
           LET earlier == [Participant(5) EXCEPT !.corsi_spans = h,
                                                 !.current_trial = Len(h)]
               stored == IF h = <<>> THEN earlier ELSE update_statistics(earlier)
           IN  participant = [stored EXCEPT !.current_trial = Len(h) + 1,
                                            !.corsi_span = span]
    /\ state = "Feedback"
    /\ sequence = [length |-> 0, highlight_box_id |-> 0,
                   boxes |-> [i \in {} |-> Box], correct |-> FALSE]
    /\ trial_over = TRUE
    /\ text_input = <<>>
    /\ elapsed_trial = TrialCap
    /\ elapsed_highlight = HighlightCap
    /\ mouse_read = FALSE
    /\ mouse_hit = {}
    /\ csv = <<>>
    /\ pc = "update"
    /\ layout = [boxes |-> <<>>, i |-> 0]
    /\ fails = 0
    /\ last_ok = 2
    /\ taps = <<>>
    /\ pending = FALSE

\* Participant.update_statistics is called at the end of the trial.
UpdateStatistics ==
    /\ Len(participant.corsi_spans) < participant.current_trial
    /\ participant' = update_statistics(participant)
    /\ UNCHANGED <<state, sequence, trial_over, text_input, elapsed_trial,
                   elapsed_highlight, mouse_read, mouse_hit, csv, pc, layout,
                   fails, last_ok, taps, pending>>

StatsSpec == InitStats /\ [][UpdateStatistics]_vars

RECURSIVE sum_of_squares(_)
sum_of_squares(xs) ==
    IF xs = <<>> THEN 0 ELSE Head(xs) * Head(xs) + sum_of_squares(Tail(xs))

\* C14: once the current trial is in the history, the stored mean is the
\* hundredth nearest to the arithmetic mean S / n of the whole history, and
\* the stored standard deviation is the hundredth nearest to the population
\* standard deviation sqrt(n * Q - S * S) / n of the whole history (S the
\* sum, Q the sum of squares, n the number of spans).
C14_Statistics ==
    LET spans == participant.corsi_spans
        n == Len(spans)
        S == sum(spans)
        D == n * sum_of_squares(spans) - S * S
        m == participant.mean_corsi_span
        r == participant.std_corsi_span
    IN  (participant # None /\ n >= 1 /\ n = participant.current_trial) =>
            /\ 2 * (100 * S - m * n) <= n
            /\ 2 * (m * n - 100 * S) <= n
            /\ r >= 0
            /\ r = 0 \/ (2 * r - 1) * (2 * r - 1) * n * n <= 40000 * D
            /\ 40000 * D < (2 * r + 1) * (2 * r + 1) * n * n

\* The history [2, 3, 3] has been finalized with mean 2.67 and deviation 0.47.
C14_Witness ==
    /\ participant # None
    /\ participant.corsi_spans = <<2, 3, 3>>
    /\ participant.current_trial = 3
    /\ participant.mean_corsi_span = 267
    /\ participant.std_corsi_span = 47

\* A proceed input is acted on: a space key press handled in Feedback that
\* advances the trial or generates the next sequence.
ProceedStep ==
    /\ state = "Feedback" /\ pc = "events" /\ pc' = "events"
    /\ \/ state' = "ShowSequence"
       \/ participant' # participant
       \/ trial_over' # trial_over

\* C15: once a click has completed scoring, show_feedback applies the outcome
\* to the participant (span, errors, trial_over, statistics) before a proceed
\* input is acted on, also when the click and the space key press come in
\* the same event batch: no proceed is acted on while a scored attempt is
\* still pending.
C15_OutcomeBeforeProceed == [][ProceedStep => ~pending]_vars

\* C16: the error counter is 0, 1 or 2 in every reachable state; it grows
\* only by one, on an incorrect click in UserInput; and a sequence generated
\* from Feedback while the counter is 2 comes with the reset of a trial
\* advance.
C16_ErrorBound ==
    /\ [](participant # None => participant.errors \in {0, 1, 2})
    /\ [][(participant # None /\ participant' # None) =>
             /\ participant'.errors > participant.errors =>
                    /\ state = "UserInput" /\ state' = "Feedback"
                    /\ ~sequence'.correct
                    /\ participant'.errors = participant.errors + 1
             /\ (GenerateStep /\ participant.errors = 2) =>
                    /\ participant'.errors = 0
                    /\ participant'.current_trial = participant.current_trial + 1]_vars

\* C16 as far as it holds: the counter grows only by one, on an incorrect
\* click in UserInput.
C16_IncrementOnly ==
    [][(participant # None /\ participant' # None
        /\ participant'.errors > participant.errors) =>
           /\ state = "UserInput" /\ state' = "Feedback"
           /\ ~sequence'.correct
           /\ participant'.errors = participant.errors + 1]_vars

\* C17: in UserInput, an event handled while the cursor is over no box, or
\* over the box that is marked clicked, leaves the state, the participant
\* (click and error counters), and the sequence (correctness flag and every
\* box's flags) unchanged; a pointer release is handled with mouse_read' true.
C17_NonScoringClick ==
    [][(/\ state = "UserInput" /\ pc = "events" /\ pc' = "events"
        /\ mouse_read'
        /\ \A b \in mouse_hit' : sequence.boxes[b].clicked)
       => UNCHANGED <<state, participant, sequence, trial_over>>]_vars

\* After the first correct click, a pointer release over no box has been
\* handled.
C17_Witness ==
    /\ state = "UserInput"
    /\ participant.clicks = 1
    /\ sequence.boxes[0].clicked
    /\ mouse_read
    /\ mouse_hit = {}

\* A tick of the presentation: Application.update in state ShowSequence.
PresentationTick == pc = "update" /\ pc' = "events" /\ state = "ShowSequence"

\* C18: a presentation tick changes no box flag, not the highlight cursor,
\* not the highlight timestamp and not the state when the time since the
\* trial start has not exceeded the start delay, and when a box is already
\* highlighted and the time since the last highlight has not exceeded the
\* highlight duration; so any number of ticks within one dwell interval
\* leave the presentation as it is.
C18_NoOpTicks ==
    [][(/\ PresentationTick
        /\ \/ elapsed_trial <= start_delay
           \/ /\ sequence.highlight_box_id > 0
              /\ elapsed_highlight <= t_highlight)
       => /\ UNCHANGED <<sequence, elapsed_highlight, elapsed_trial>>
          /\ state' = "ShowSequence"
          /\ UNCHANGED <<participant, trial_over>>]_vars

\* Box 0 has been highlighted for exactly the highlight duration, and the
\* tick that runs now leaves it highlighted.
C18_Witness ==
    /\ state = "ShowSequence"
    /\ sequence.highlight_box_id = 1
    /\ sequence.boxes[0].highlight
    /\ elapsed_highlight = t_highlight
    /\ ENABLED (PresentationTick /\ sequence' = sequence /\ state' = state)

\* Application.start: the loop runs frame after frame, so handle_events
\* returns, update is called (asked for here only while a sequence is
\* presented), and the clock that time() reads advances.
FairSpec ==
    /\ Spec
    /\ WF_vars(EndOfEvents)
    /\ WF_vars(state = "ShowSequence" /\ Update)
    /\ WF_vars(TimePasses)

\* C19: once a sequence is being presented, the state becomes UserInput
\* (unless the application is quit first) with no fairness asked of any input
\* event; and the step into UserInput is taken when the highlight cursor,
\* which counts the highlight steps, equals the length.
C19_PresentationCompletes ==
    /\ (state = "ShowSequence") ~> (state = "UserInput" \/ pc = "exited")
    /\ [][(state = "ShowSequence" /\ state' = "UserInput")
          => /\ sequence.highlight_box_id = sequence.length
             /\ sequence'.highlight_box_id = sequence.length
             /\ UNCHANGED participant]_vars

\* A presentation has reached UserInput in a frame whose batch was empty.
C19_Witness ==
    /\ state = "UserInput"
    /\ pc = "events"
    /\ ~mouse_read
    /\ sequence.highlight_box_id = sequence.length
    /\ sequence.length = 3
    /\ participant.corsi_span = 2
    /\ taps = <<>>

\* C20: in every reachable state no box is both highlighted and marked
\* clicked, and at most one box of the sequence is marked clicked.
C20_BoxStatus ==
    /\ \A b \in DOMAIN sequence.boxes :
           ~(sequence.boxes[b].highlight /\ sequence.boxes[b].clicked)
    /\ Cardinality(ClickedBoxes(sequence)) <= 1

\* The second box of a sequence has been clicked after the first: box 1 is
\* the one clicked box, and it had been highlighted during the presentation.
C20_Witness ==
    /\ state = "UserInput"
    /\ participant.clicks = 2
    /\ taps = <<0, 1>>
    /\ ClickedBoxes(sequence) = {1}
    /\ Highlighted(sequence) = {}

\* C21: once a participant exists, 1 <= current_trial <= max_trials, the
\* span history has current_trial - 1 or current_trial entries, it has
\* current_trial entries exactly when the current trial has been finalized
\* (trial_over), and every recorded span is between 2 and n_boxes.
C21_Bookkeeping ==
    participant # None =>
        /\ participant.current_trial \in 1 .. max_trials
        /\ Len(participant.corsi_spans) \in
               {participant.current_trial - 1, participant.current_trial}
        /\ Len(participant.corsi_spans) = participant.current_trial <=> trial_over
        /\ \A i \in 1 .. Len(participant.corsi_spans) :
               participant.corsi_spans[i] \in 2 .. n_boxes

\* The last trial has been finalized after an earlier trial that recorded a
\* span above 2.
C21_Witness ==
    /\ participant # None
    /\ participant.current_trial = max_trials
    /\ Len(participant.corsi_spans) = max_trials
    /\ participant.corsi_spans[1] = 3
    /\ trial_over

\* C22: every generated sequence has 3 <= length <= n_boxes and n_boxes
\* boxes; the highlight cursor never exceeds the length; while clicks are
\* scored (UserInput) 0 <= clicks <= length - 1; so the boxes that show
\* indexes (cursor when it highlights, cursor - 1 when it un-highlights) and
\* the box that handle_user_input indexes (clicks) exist.
C22_IndexSafety ==
    state \in {"ShowSequence", "UserInput", "Feedback"} =>
        /\ sequence.length \in 3 .. n_boxes
        /\ DOMAIN sequence.boxes = BoxIds
        /\ sequence.highlight_box_id \in 0 .. sequence.length
        /\ participant.clicks \in 0 .. (sequence.length - 1)
        /\ state \in {"ShowSequence", "UserInput"} =>
               /\ sequence.highlight_box_id < sequence.length =>
                      sequence.highlight_box_id \in DOMAIN sequence.boxes
               /\ sequence.highlight_box_id > 0 =>
                      (sequence.highlight_box_id - 1) \in DOMAIN sequence.boxes
        /\ state = "UserInput" => participant.clicks \in DOMAIN sequence.boxes

\* The longest sequence has been presented and all of its clicks but the
\* last have been scored.
C22_Witness ==
    /\ state = "UserInput"
    /\ sequence.length = n_boxes
    /\ sequence.highlight_box_id = n_boxes
    /\ participant.clicks = n_boxes - 1
    /\ sequence.boxes[n_boxes - 2].clicked

\* C23: while the state is ShowSequence, no step of handle_events (a pointer
\* release, a key press, or the end of the batch) changes a field of the
\* participant or of the sequence, the state or trial_over; the presentation
\* moves only in update.
C23_InputIgnored ==
    [][(state = "ShowSequence" /\ pc = "events")
       => UNCHANGED <<participant, sequence, state, trial_over, text_input>>]_vars

\* Box 0 is highlighted and handle_events has an event to dispatch.
C23_Witness ==
    /\ state = "ShowSequence"
    /\ pc = "events"
    /\ sequence.highlight_box_id = 1
    /\ sequence.boxes[0].highlight
    /\ ENABLED ShowSequenceInput

\* C24: once the state is UserInput, a tick (update, with a clock that never
\* runs backwards) keeps the state UserInput and leaves the sequence as it
\* is, no step highlights a box, and the state changes only to Feedback, in
\* handle_events, by a pointer release that marks a box clicked; a quit
\* ends the program in UserInput.
C24_UserInputStable ==
    [][state = "UserInput" =>
          /\ Highlighted(sequence') = {}
          /\ state' \in {"UserInput", "Feedback"}
          /\ state' = "Feedback" =>
                 /\ pc = "events" /\ pc' = "events"
                 /\ mouse_read'
                 /\ \E b \in mouse_hit' :
                        sequence'.boxes[b].clicked /\ ~sequence.boxes[b].clicked
          /\ pc = "update" => (state' = "UserInput" /\ sequence' = sequence)]_vars

\* A tick has run in UserInput after the first click was scored, and the
\* clock has passed both thresholds.
C24_Witness ==
    /\ state = "UserInput"
    /\ pc = "events"
    /\ participant.clicks = 1
    /\ sequence.boxes[0].clicked
    /\ ~mouse_read
    /\ elapsed_highlight > t_highlight
    /\ elapsed_trial > start_delay

====
